---- MODULE Spec2Model ----
(***************************************************************************)
(* Model of src/Robot.py: a point robot in a square world, with noisy      *)
(* motion that is rejected at the boundary, random landmark placement and  *)
(* noisy relative sensing of the landmarks within a range.                 *)
(*                                                                         *)
(* Numbers.  Every real quantity q of the program (positions, deltas,      *)
(* world size, range, noise scales, measured distances) is held as the     *)
(* integer q * Den, so arithmetic on them is exact.  A value returned by   *)
(* random.random() is held as its numerator k, 0 <= k < Den, meaning       *)
(* k / Den, which lies in [0, 1).  Only finite numbers are modelled (no    *)
(* IEEE infinities or NaN).                                                *)
(***************************************************************************)
EXTENDS Integers, Naturals, Sequences, FiniteSets, TLC

\* Fixed-point denominator: a stored integer v stands for the real v / Den.
Den == 5

\* A call is explored only while fewer values than this were consumed from the
\* random stream.
MaxDraws == 5

VARIABLES
    world_size,         \* self.world_size
    measurement_range,  \* self.measurement_range
    motion_noise,       \* self.motion_noise
    measurement_noise,  \* self.measurement_noise
    x,                  \* self.x
    y,                  \* self.y
    landmarks,          \* self.landmarks: sequence of <<lx, ly>>
    num_landmarks,      \* self.num_landmarks
    call,               \* the last call made on the robot and its arguments
    ret,                \* what that call returned
    locals,             \* the local values that call computed: move's candidate
                        \* <<x, y>>, sense's <<dx, dy>> for every landmark
    drawn               \* how many values of the random stream were consumed so far

params == <<world_size, measurement_range, motion_noise, measurement_noise>>
vars == <<world_size, measurement_range, motion_noise, measurement_noise,
          x, y, landmarks, num_landmarks, call, ret, locals, drawn>>

\* The real number 1.0; the sentinel measurement_range == -1 is stored as -One.
One == Den

\* Numerators of the values random.random() can return: k / Den in [0, 1).
Draws == 0 .. (Den - 1)

\* Robot(world_size, measurement_range, motion_noise, measurement_noise)
Robot(ws, range, mn, sn) ==
    [world_size |-> ws, measurement_range |-> range,
     motion_noise |-> mn, measurement_noise |-> sn]

\* The constructor arguments explored: worlds of size 0.8 (not an integer)
\* and 2; unlimited range (-1), range 0.4 and range 1; noise scales 0 and 1.
\* World sizes are even multiples of 1 / Den, so that world_size / 2.0 is
\* exact; noise scales are whole numbers, so that Times is exact.
Robots ==
    { Robot(4, -One, 0, One),
      Robot(4, 2, One, One),
      Robot(2 * One, One, 0, 0),
      Robot(2 * One, One, 0, One) }

\* The robots of the scenario "move(200, 0) from the centre of a world of size
\* 100": motion noise scales 0, 1, 149 and 150.
ScenarioRobots ==
    { Robot(100 * One, 30 * One, 0, 0),
      Robot(100 * One, 30 * One, One, 0),
      Robot(100 * One, -One, 149 * One, 0),
      Robot(100 * One, -One, 150 * One, 0) }

\* The (dx, dy) passed to move: (-1, 0), (0, 1), (0.4, 0.4), (200, 0), (0, 200).
Moves ==
    { <<-One, 0>>, <<0, One>>, <<2, 2>>, <<200 * One, 0>>, <<0, 200 * One>> }

\* The arguments passed to make_landmarks; it accepts any integer.
LandmarkCounts == {-1, 0, 1, 2}
\* The same, for the robots of the scenario.
ScenarioLandmarkCounts == {0, 1}

Abs(v) == IF v < 0 THEN 0 - v ELSE v

\* The product of two stored numbers a/Den and b/Den, stored.  One factor is
\* always a noise scale, which is a whole number here, so the division is exact.
Times(a, b) == (a * b) \div Den

\* _rand(): random.random() * 2.0 - 1.0, for random.random() = k / Den.
rand(k) == 2 * k - Den

\* Variant of Noise: the scale added to the draw instead of multiplying it.
NoiseAdded(k, noise) == rand(k) + noise

\* self._rand() * noise
Noise(k, noise) == Times(rand(k), noise)

\* round(): Python 3 rounds to the nearest integer, halves to the even one.
\* The argument is the rational n / d, d > 0.
RoundHalfEven(n, d) ==
    LET q == n \div d
        r == n % d
    IN  IF 2 * r < d THEN q
        ELSE IF 2 * r > d THEN q + 1
        ELSE IF q % 2 = 0 THEN q ELSE q + 1

\* round(random.random() * self.world_size), stored.
LandmarkCoordinate(k, ws) == Den * RoundHalfEven(k * ws, Den * Den)

\* self.x + dx + (self._rand() * self.motion_noise)
Candidate(p, d, k, noise) == p + d + Noise(k, noise)

\* Variant of OutOfWorld: the test of y left out.
OutOfWorldXOnly(cx, cy, ws) == cx < 0 \/ cx > ws

\* Variant of OutOfWorld: the tests against world_size left out.
OutOfWorldLowerOnly(cx, cy, ws) == cx < 0 \/ cy < 0

\* (x < 0.0 or x > self.world_size) or (y < 0.0 or y > self.world_size)
OutOfWorld(cx, cy, ws) == (cx < 0 \/ cx > ws) \/ (cy < 0 \/ cy > ws)

\* (landmark_x - self.x) + (self._rand() * self.measurement_noise)
Measure(lm, p, k, noise) == (lm - p) + Noise(k, noise)

\* Variant of WithinRange: 'or' binding tighter than 'and', so that the
\* unlimited-range flag bypasses the dx test only.
WithinRangeOneAxisBypassed(dx, dy, range) ==
    (range = -One \/ Abs(dx) <= range) /\ Abs(dy) <= range

\* is_landmark_within_range
WithinRange(dx, dy, range) ==
    range = -One \/ (Abs(dx) <= range /\ Abs(dy) <= range)

\* __init__, for the constructor arguments r.
New(r) ==
    /\ world_size = r.world_size
    /\ measurement_range = r.measurement_range
    /\ x = r.world_size \div 2
    /\ y = r.world_size \div 2
    /\ motion_noise = r.motion_noise
    /\ measurement_noise = r.measurement_noise
    /\ landmarks = <<>>
    /\ num_landmarks = 0
    /\ call = [op |-> "new", dx |-> 0, dy |-> 0, n |-> 0]
    /\ ret = "None"
    /\ locals = <<>>
    /\ drawn = 0

Init == \E r \in Robots : New(r)

InitScenario == \E r \in ScenarioRobots : New(r)

\* Variant of Move: each coordinate updated on its own test.
MovePartial(dx, dy, k1, k2) ==
    /\ drawn < MaxDraws
    /\ LET cx == Candidate(x, dx, k1, motion_noise)
           cy == Candidate(y, dy, k2, motion_noise)
       IN  /\ x' = IF cx < 0 \/ cx > world_size THEN x ELSE cx
           /\ y' = IF cy < 0 \/ cy > world_size THEN y ELSE cy
           /\ ret' = ~OutOfWorld(cx, cy, world_size)
           /\ locals' = <<cx, cy>>
    /\ call' = [op |-> "move", dx |-> dx, dy |-> dy, n |-> 0]
    /\ drawn' = drawn + 2
    /\ UNCHANGED <<params, landmarks, num_landmarks>>

\* Variant of Move: the y draw taken only once the x candidate is in bounds.
MoveLazyDraw(dx, dy, k1, k2) ==
    /\ drawn < MaxDraws
    /\ LET cx == Candidate(x, dx, k1, motion_noise)
           cy == Candidate(y, dy, k2, motion_noise)
       IN  IF cx < 0 \/ cx > world_size
           THEN /\ ret' = FALSE
                /\ locals' = <<cx>>
                /\ drawn' = drawn + 1
                /\ UNCHANGED <<x, y>>
           ELSE /\ locals' = <<cx, cy>>
                /\ drawn' = drawn + 2
                /\ IF cy < 0 \/ cy > world_size
                   THEN ret' = FALSE /\ UNCHANGED <<x, y>>
                   ELSE ret' = TRUE /\ x' = cx /\ y' = cy
    /\ call' = [op |-> "move", dx |-> dx, dy |-> dy, n |-> 0]
    /\ UNCHANGED <<params, landmarks, num_landmarks>>

\* move(dx, dy), with k1 and k2 the values the first and the second call of
\* random.random() return.
Move(dx, dy, k1, k2) ==
    /\ drawn < MaxDraws
    /\ LET cx == Candidate(x, dx, k1, motion_noise)
           cy == Candidate(y, dy, k2, motion_noise)
       IN  /\ locals' = <<cx, cy>>
           /\ IF OutOfWorld(cx, cy, world_size)
              THEN /\ ret' = FALSE
                   /\ UNCHANGED <<x, y>>
              ELSE /\ x' = cx
                   /\ y' = cy
                   /\ ret' = TRUE
    /\ call' = [op |-> "move", dx |-> dx, dy |-> dy, n |-> 0]
    /\ drawn' = drawn + 2
    /\ UNCHANGED <<params, landmarks, num_landmarks>>

\* The dx and dy sense() computes for every landmark, ks being the values
\* random.random() returns, in order: two for each landmark, dx's first.
Measured(ks) ==
    [i \in 1 .. Len(landmarks) |->
        <<Measure(landmarks[i][1], x, ks[2 * i - 1], measurement_noise),
          Measure(landmarks[i][2], y, ks[2 * i], measurement_noise)>>]

\* Variant of Measurements: each measurement put in front of the list.
RECURSIVE MeasurementsReversed(_, _, _)
MeasurementsReversed(i, m, measurements) ==
    IF i > Len(m) THEN measurements
    ELSE MeasurementsReversed(i + 1, m,
             IF WithinRange(m[i][1], m[i][2], measurement_range)
             THEN <<<<i - 1, m[i][1], m[i][2]>>>> \o measurements
             ELSE measurements)

\* The loop of sense() from the i-th landmark on (i counts from 1, the index
\* reported is i - 1), m[i] being the <<dx, dy>> computed for landmark i and
\* measurements the list built so far.
RECURSIVE Measurements(_, _, _)
Measurements(i, m, measurements) ==
    IF i > Len(m) THEN measurements
    ELSE Measurements(i + 1, m,
             IF WithinRange(m[i][1], m[i][2], measurement_range)
             THEN Append(measurements, <<i - 1, m[i][1], m[i][2]>>)
             ELSE measurements)

\* Variant of Sense: x overwritten by the first landmark's.
SenseRecentres(ks) ==
    /\ drawn < MaxDraws
    /\ locals' = Measured(ks)
    /\ ret' = Measurements(1, Measured(ks), <<>>)
    /\ call' = [op |-> "sense", dx |-> 0, dy |-> 0, n |-> 0]
    /\ drawn' = drawn + Len(ks)
    /\ x' = IF Len(landmarks) > 0 THEN landmarks[1][1] ELSE x
    /\ UNCHANGED <<params, y, landmarks, num_landmarks>>

\* sense(), with ks the 2 * len(self.landmarks) values random.random() returns.
Sense(ks) ==
    /\ drawn < MaxDraws
    /\ locals' = Measured(ks)
    /\ ret' = Measurements(1, Measured(ks), <<>>)
    /\ call' = [op |-> "sense", dx |-> 0, dy |-> 0, n |-> 0]
    /\ drawn' = drawn + Len(ks)
    /\ UNCHANGED <<params, x, y, landmarks, num_landmarks>>

\* len(range(n))
RangeLen(n) == IF n > 0 THEN n ELSE 0

\* make_landmarks(n), with ks the values random.random() returns, in order.
MakeLandmarks(n, ks) ==
    /\ drawn < MaxDraws
    /\ landmarks' = [i \in 1 .. RangeLen(n) |->
                        <<LandmarkCoordinate(ks[2 * i - 1], world_size),
                          LandmarkCoordinate(ks[2 * i], world_size)>>]
    /\ num_landmarks' = n
    /\ call' = [op |-> "make_landmarks", dx |-> 0, dy |-> 0, n |-> n]
    /\ ret' = "None"
    /\ locals' = <<>>
    /\ drawn' = drawn + Len(ks)
    /\ UNCHANGED <<params, x, y>>

DoMove == \E m \in Moves, k1 \in Draws, k2 \in Draws : Move(m[1], m[2], k1, k2)

DoSense == \E ks \in [1 .. 2 * Len(landmarks) -> Draws] : Sense(ks)

DoMakeLandmarks(counts) ==
    \E n \in counts : \E ks \in [1 .. 2 * RangeLen(n) -> Draws] : MakeLandmarks(n, ks)

Next == DoMove \/ DoSense \/ DoMakeLandmarks(LandmarkCounts)

NextScenario == DoMove \/ DoSense \/ DoMakeLandmarks(ScenarioLandmarkCounts)

Spec == Init /\ [][Next]_vars

SpecScenario == InitScenario /\ [][NextScenario]_vars

----------------------------------------------------------------------------
(* Properties *)

InWorld(px, py) == 0 <= px /\ px <= world_size /\ 0 <= py /\ py <= world_size

\* C1: in every reachable state the position lies in the world:
\* 0 <= x <= world_size and 0 <= y <= world_size.
PositionInWorld == InWorld(x, y)

\* A move was accepted and took the robot onto the boundary x = 0.
AcceptedMoveToBoundary == call.op = "move" /\ ret = TRUE /\ x = 0

\* The candidates of move(dx, dy) from (px, py) for some pair of noise draws.
IsCandidate(c, px, py, dx, dy) ==
    \E k1 \in Draws, k2 \in Draws :
        c = << px + dx + ((2 * k1 - Den) * motion_noise) \div Den,
               py + dy + ((2 * k2 - Den) * motion_noise) \div Den >>

\* C2: move returns False exactly when a candidate coordinate lies outside
\* [0, world_size], and then x and y keep their values; when it returns True
\* both x and y become the candidates.  Never only one coordinate changes.
MoveAllOrNothing ==
    [][call'.op = "move" =>
          /\ IsCandidate(locals', x, y, call'.dx, call'.dy)
          /\ (ret' = FALSE) <=> ~InWorld(locals'[1], locals'[2])
          /\ (ret' = FALSE) => (x' = x /\ y' = y)
          /\ (ret' = TRUE) => (x' = locals'[1] /\ y' = locals'[2])
          /\ (x' = x /\ y' = y) \/ (x' = locals'[1] /\ y' = locals'[2])]_vars

\* A noise-free move(0, 1) was rejected at the upper boundary: its x candidate
\* was in bounds and moved off the centre line earlier, its y candidate was not.
RejectedOnOneAxis ==
    /\ motion_noise = 0
    /\ call.op = "move" /\ call.dx = 0 /\ call.dy = One
    /\ ret = FALSE
    /\ y = world_size
    /\ locals[1] = x /\ locals[2] > world_size

ScenarioCall(c) == c.op = "move" /\ c.dx = 200 * One /\ c.dy = 0

AtScenarioCentre ==
    world_size = 100 * One /\ x = 50 * One /\ y = 50 * One

NumLandmarksIsLength == num_landmarks = Len(landmarks)

\* C5: every coordinate of every stored landmark lies in [0, world_size],
\* for any positive world_size, whole or not.
LandmarksInWorld ==
    \A i \in 1 .. Len(landmarks) : InWorld(landmarks[i][1], landmarks[i][2])

\* C6: the list sense() returns has strictly ascending landmark indices, each
\* of them at least 0 and less than num_landmarks.
SenseIndicesAscending ==
    call.op = "sense" =>
        /\ \A j \in 1 .. Len(ret) : 0 <= ret[j][1] /\ ret[j][1] < num_landmarks
        /\ \A j \in 1 .. Len(ret) - 1 : ret[j][1] < ret[j + 1][1]

\* sense() reported two landmarks.
SensedTwo == call.op = "sense" /\ Len(ret) = 2

\* Landmark i (from 1) of the last sense() is in its result, with the dx and
\* dy computed for it.
Reported(i) ==
    \E j \in 1 .. Len(ret) : ret[j] = <<i - 1, locals[i][1], locals[i][2]>>

\* C7: sense() reports landmark i if and only if measurement_range = -1 or
\* both |dx_i| and |dy_i|, the noisy differences, are at most
\* measurement_range; with measurement_range = -1 there is one entry for each
\* landmark.
SenseReportsObservable ==
    call.op = "sense" =>
        /\ Len(locals) = Len(landmarks)
        /\ \A i \in 1 .. Len(landmarks) :
              Reported(i) <=>
                 \/ measurement_range = -One
                 \/ /\ locals[i][1] <= measurement_range
                    /\ -locals[i][1] <= measurement_range
                    /\ locals[i][2] <= measurement_range
                    /\ -locals[i][2] <= measurement_range
        /\ measurement_range = -One => Len(ret) = Len(landmarks)

\* sense() with a limited range reported the second of two landmarks and left
\* out the first, whose dx was in range and whose dy was not.
SensedOneOfTwo ==
    /\ call.op = "sense" /\ measurement_range # -One
    /\ Len(landmarks) = 2 /\ Len(ret) = 1 /\ ret[1][1] = 1
    /\ Abs(locals[1][1]) <= measurement_range
    /\ Abs(locals[1][2]) > measurement_range

\* C8: the landmarks and num_landmarks change only in make_landmarks, the
\* position only in a move that returns True (so sense changes none of them,
\* move changes no landmark, make_landmarks does not change the position).
FrameEffects ==
    [][/\ (landmarks' # landmarks \/ num_landmarks' # num_landmarks)
              => call'.op = "make_landmarks"
       /\ (x' # x \/ y' # y) => (call'.op = "move" /\ ret' = TRUE)]_vars

\* sense() reported a landmark whose coordinates differ from the position's,
\* after the robot had moved from the centre.
SensedAfterMoving ==
    /\ call.op = "sense" /\ Len(ret) > 0
    /\ x # world_size \div 2
    /\ landmarks[1][1] # x

\* The measurements of the observable landmarks from position (px, py), by
\* their exact differences.
ExactMeasurements(px, py) ==
    LET exact == [i \in 1 .. Len(landmarks) |->
                     <<i - 1, landmarks[i][1] - px, landmarks[i][2] - py>>]
        Observable(t) ==
            \/ measurement_range = -One
            \/ Abs(t[2]) <= measurement_range /\ Abs(t[3]) <= measurement_range
    IN  SelectSeq(exact, Observable)

\* C9: with motion_noise = 0 a move(dx, dy) whose target is in bounds returns
\* True and sets the position to exactly (x + dx, y + dy); with
\* measurement_noise = 0 sense() returns exactly (index, landmark.x - x,
\* landmark.y - y) for each observable landmark; whatever the noise draws.
NoiseFreeIsExact ==
    [][/\ (motion_noise = 0 /\ call'.op = "move"
              /\ InWorld(x + call'.dx, y + call'.dy))
          => (ret' = TRUE /\ x' = x + call'.dx /\ y' = y + call'.dy)
       /\ (measurement_noise = 0 /\ call'.op = "sense")
          => ret' = ExactMeasurements(x, y)]_vars

\* A noise-free robot that had moved from the centre sensed a landmark that
\* lies somewhere else.
NoiseFreeSensed ==
    /\ motion_noise = 0 /\ measurement_noise = 0
    /\ x # world_size \div 2
    /\ call.op = "sense" /\ Len(ret) = 1 /\ ret[1][2] # 0

====
